---- MODULE Spec2Model ----
(***************************************************************************)
(* Model of the expense categorizer script src/steamlit.py.               *)
(*                                                                         *)
(* One run of the script is: load_categories() at import, then, when a    *)
(* file is uploaded, read it, validate its columns, clean and categorize  *)
(* its rows, date them, and report the summaries.  The script is run      *)
(* again from the top for every new upload.                                *)
(*                                                                         *)
(* Cells of the table are records [k, s, n]: k is the kind of value        *)
(* ("null" for NaN/NaT, "str" for text, "num" for a number, "dt" for a     *)
(* timestamp), s the text of a "str" and n the value of a "num" or the     *)
(* day ordinal of a "dt".  Text is a sequence of one-character strings.    *)
(* Amounts are exact integers.                                             *)
(***************************************************************************)
EXTENDS Integers, Sequences, FiniteSets, TLC

VARIABLES
    cfg,            \* categories.json on disk: [kind, content]
    categories,     \* the module-level rule set (line 22)
    pc,             \* where the script run is
    uploaded_file,  \* the uploaded CSV: [cols, rows] of text cells
    columns,        \* df.columns
    df,             \* the data frame: a sequence of rows
    error_shown,    \* st.error was called (line 44)
    summary,        \* line 63: category -> sum
    tips_shown,     \* lines 80-85: category -> tip text written
    monthly_spending, \* line 103: month -> sum
    budget_df,      \* lines 121-132
    total_spent,    \* line 144
    download,       \* lines 148-152: the rows offered for download
    outputs,        \* what the run has put on the page
    cat_description, \* SpecCat: the description handed to categorize
    cat_result       \* SpecCat: what categorize returned

vars == <<cfg, categories, pc, uploaded_file, columns, df, error_shown, summary,
          tips_shown, monthly_spending, budget_df, total_spent, download,
          outputs, cat_description, cat_result>>

----------------------------------------------------------------------------
(* Bounds *)

MaxRows == 2

MaxDescLen == 3

----------------------------------------------------------------------------
(* Text *)

UpperLetters == <<"A","B","C","D","E","F","G","H","I","J","K","L","M",
                  "N","O","P","Q","R","S","T","U","V","W","X","Y","Z">>

LowerLetters == <<"a","b","c","d","e","f","g","h","i","j","k","l","m",
                  "n","o","p","q","r","s","t","u","v","w","x","y","z">>

Digits == <<"0","1","2","3","4","5","6","7","8","9">>

\* str.lower() on one character
LowerChar(c) ==
    IF \E i \in 1..Len(UpperLetters) : UpperLetters[i] = c
    THEN LowerLetters[CHOOSE i \in 1..Len(UpperLetters) : UpperLetters[i] = c]
    ELSE c

\* str.lower()
Lower(s) == [i \in 1..Len(s) |-> LowerChar(s[i])]

\* whether s[i..] starts with kw
RECURSIVE StartsAt(_, _, _, _)
StartsAt(kw, s, i, j) ==
    IF j > Len(kw) THEN TRUE
    ELSE IF i + j - 1 > Len(s) THEN FALSE
    ELSE IF s[i + j - 1] # kw[j] THEN FALSE
    ELSE StartsAt(kw, s, i, j + 1)

\* `kw in s` on Python strings
RECURSIVE ScanFrom(_, _, _)
ScanFrom(kw, s, i) ==
    IF i + Len(kw) - 1 > Len(s) THEN FALSE
    ELSE IF StartsAt(kw, s, i, 1) THEN TRUE
    ELSE ScanFrom(kw, s, i + 1)

Contains(kw, s) == ScanFrom(kw, s, 1)

IsDigit(c) == \E i \in 1..10 : Digits[i] = c

DigitVal(c) == (CHOOSE i \in 1..10 : Digits[i] = c) - 1

RECURSIVE DigitsValue(_, _, _)
DigitsValue(s, i, acc) ==
    IF i > Len(s) THEN acc ELSE DigitsValue(s, i + 1, acc * 10 + DigitVal(s[i]))

AllDigits(s) == Len(s) > 0 /\ \A i \in 1..Len(s) : IsDigit(s[i])

\* integer literals, with an optional sign
IsNumericText(s) ==
    \/ AllDigits(s)
    \/ Len(s) > 1 /\ s[1] = "-" /\ AllDigits(Tail(s))

NumericValue(s) ==
    IF s[1] = "-" THEN 0 - DigitsValue(Tail(s), 1, 0) ELSE DigitsValue(s, 1, 0)

----------------------------------------------------------------------------
(* Cells *)

Null == [k |-> "null", s |-> <<>>, n |-> 0]

Str(t) == [k |-> "str", s |-> t, n |-> 0]

Num(v) == [k |-> "num", s |-> <<>>, n |-> v]

Dt(o) == [k |-> "dt", s |-> <<>>, n |-> o]

IsNull(c) == c.k = "null"

NoPeriod == [k |-> "null", y |-> 0, m |-> 0]

Period(y, m) == [k |-> "period", y |-> y, m |-> m]

----------------------------------------------------------------------------
(* Calendar: day ordinals count from 2023-01-01 = 0 and cover 2023 and 2024 *)

DaysInMonth(y, m) ==
    IF m = 2 THEN (IF y % 4 = 0 THEN 29 ELSE 28)
    ELSE IF m \in {4, 6, 9, 11} THEN 30 ELSE 31

DaysInYear(y) == IF y % 4 = 0 THEN 366 ELSE 365

RECURSIVE DaysBeforeMonth(_, _)
DaysBeforeMonth(y, m) ==
    IF m = 1 THEN 0 ELSE DaysBeforeMonth(y, m - 1) + DaysInMonth(y, m - 1)

RECURSIVE DaysBeforeYear(_)
DaysBeforeYear(y) ==
    IF y <= 2023 THEN 0 ELSE DaysBeforeYear(y - 1) + DaysInYear(y - 1)

Ordinal(y, m, d) == DaysBeforeYear(y) + DaysBeforeMonth(y, m) + d - 1

Years == {2023, 2024}

\* the year and month a day ordinal falls in
YearOf(o) == CHOOSE y \in Years :
    DaysBeforeYear(y) <= o /\ o < DaysBeforeYear(y) + DaysInYear(y)

MonthOf(o) == CHOOSE m \in 1..12 :
    LET b == DaysBeforeYear(YearOf(o)) + DaysBeforeMonth(YearOf(o), m)
    IN  b <= o /\ o < b + DaysInMonth(YearOf(o), m)

\* ISO text YYYY-MM-DD naming a day of the calendar
IsDateText(s) ==
    /\ Len(s) = 10
    /\ s[5] = "-" /\ s[8] = "-"
    /\ \A i \in {1, 2, 3, 4, 6, 7, 9, 10} : IsDigit(s[i])
    /\ DigitsValue(SubSeq(s, 1, 4), 1, 0) \in Years
    /\ DigitsValue(SubSeq(s, 6, 7), 1, 0) \in 1..12
    /\ DigitsValue(SubSeq(s, 9, 10), 1, 0) \in
         1..DaysInMonth(DigitsValue(SubSeq(s, 1, 4), 1, 0),
                        DigitsValue(SubSeq(s, 6, 7), 1, 0))

DateValue(s) ==
    Ordinal(DigitsValue(SubSeq(s, 1, 4), 1, 0),
            DigitsValue(SubSeq(s, 6, 7), 1, 0),
            DigitsValue(SubSeq(s, 9, 10), 1, 0))

\* datetime.today() of a run: the first of March 2024, or new year's day 2024
Todays == {Ordinal(2024, 3, 1), Ordinal(2024, 1, 1)}

----------------------------------------------------------------------------
(* CategoryRules: load_categories *)

Rule(name, keywords) == [name |-> name, keywords |-> keywords]

\* the built-in rule set, lines 14-20
DefaultCategories == <<
    Rule("groceries", <<<<"w","a","l","m","a","r","t">>, <<"s","u","p","e","r","m","a","r","k","e","t">>, <<"g","r","o","c","e","r","y">>, <<"a","l","d","i">>>>),
    Rule("rent", <<<<"r","e","n","t">>, <<"a","p","a","r","t","m","e","n","t">>>>),
    Rule("utilities", <<<<"e","l","e","c","t","r","i","c">>, <<"w","a","t","e","r">>, <<"g","a","s">>, <<"i","n","t","e","r","n","e","t">>>>),
    Rule("entertainment", <<<<"n","e","t","f","l","i","x">>, <<"c","i","n","e","m","a">>, <<"m","o","v","i","e">>, <<"c","o","n","c","e","r","t">>>>),
    Rule("other", << >>) >>

\* contents a categories.json may hold
CustomCategories == <<
    Rule("travel", <<<<"t","a","x","i">>, <<"g","a">>>>),
    Rule("utilities", <<<<"g","a","s">>, <<"S">>>>),
    Rule("rent", <<<<"r","e","n","t">>, <<"a">>>>) >>

EmptyKeywordCategories == <<
    Rule("misc", <<<<"s","g">>>>),
    Rule("all", << << >> >>),
    Rule("other", << >>) >>

NoFile == [kind |-> "absent", content |-> << >>]

Unreadable == [kind |-> "unreadable", content |-> << >>]

Malformed == [kind |-> "malformed", content |-> << >>]

Present(rules) == [kind |-> "present", content |-> rules]

Configs == {NoFile, Unreadable, Malformed, Present(CustomCategories)}

\* a mutant of load_categories: the fallback lists "other" first
load_categories_other_first(c) ==
    IF c.kind = "absent"
    THEN [raised |-> FALSE,
          value |-> <<DefaultCategories[5]>> \o SubSeq(DefaultCategories, 1, 4)]
    ELSE IF c.kind = "present" THEN [raised |-> FALSE, value |-> c.content]
    ELSE [raised |-> TRUE, value |-> << >>]

\* open() raises FileNotFoundError for an absent file, which is caught; a
\* PermissionError (unreadable) or a JSONDecodeError (malformed) is not
load_categories(c) ==
    IF c.kind = "absent" THEN [raised |-> FALSE, value |-> DefaultCategories]
    ELSE IF c.kind = "present" THEN [raised |-> FALSE, value |-> c.content]
    ELSE [raised |-> TRUE, value |-> << >>]

----------------------------------------------------------------------------
(* Categorizer: categorize *)

\* any(keyword in description for keyword in keywords)
AnyKeyword(keywords, d) ==
    \E k \in 1..Len(keywords) : Contains(keywords[k], d)

\* a mutant of FirstMatch: the last matching category wins
RECURSIVE LastMatch(_, _, _)
LastMatch(rules, d, i) ==
    IF i > Len(rules) THEN "other"
    ELSE IF LastMatch(rules, d, i + 1) # "other" THEN LastMatch(rules, d, i + 1)
    ELSE IF AnyKeyword(rules[i].keywords, d) THEN rules[i].name
    ELSE "other"

\* the loop of lines 27-30 over categories.items(), from position i
RECURSIVE FirstMatch(_, _, _)
FirstMatch(rules, d, i) ==
    IF i > Len(rules) THEN "other"
    ELSE IF AnyKeyword(rules[i].keywords, d) THEN rules[i].name
    ELSE FirstMatch(rules, d, i + 1)

categorize(description) == FirstMatch(categories, Lower(description), 1)

----------------------------------------------------------------------------
(* The uploaded file and pd.read_csv *)

ColumnNames == {"Description", "Amount", "Date"}

\* texts a cell of each column may hold; the empty text is an empty cell
DescriptionTexts == {<< >>, <<"A","l","d","i">>, <<"T","a","x","i">>}

AmountTexts == {<< >>, <<"a","b">>, <<"5">>}

DateTexts == {<< >>, <<"2","0","2","4","-","0","2","-","2","9">>, <<"n","/","a">>}

TextsOf(cols, name, texts) == IF name \in cols THEN texts ELSE {<< >>}

RawRows(cols) ==
    [Description : TextsOf(cols, "Description", DescriptionTexts),
     Amount : TextsOf(cols, "Amount", AmountTexts),
     Date : TextsOf(cols, "Date", DateTexts)]

FilesWith(cols) ==
    {[cols |-> cols, rows |-> r] : r \in UNION {[1..n -> RawRows(cols)] : n \in 0..MaxRows}}

Files == UNION {FilesWith(c) : c \in SUBSET ColumnNames}

TextCell(t) == IF t = << >> THEN Null ELSE Str(t)

\* read_csv types a column as numbers when every non-empty cell is a number,
\* and leaves it as text otherwise
NumericColumn(rows) ==
    \A i \in 1..Len(rows) : rows[i].Amount = << >> \/ IsNumericText(rows[i].Amount)

AmountCell(t, numeric) ==
    IF t = << >> THEN Null ELSE IF numeric THEN Num(NumericValue(t)) ELSE Str(t)

\* df = pd.read_csv(uploaded_file), line 40; idx is the row's index label
ReadCsv(f) ==
    [i \in 1..Len(f.rows) |->
        [idx |-> i - 1,
         Description |-> TextCell(f.rows[i].Description),
         Amount |-> AmountCell(f.rows[i].Amount, NumericColumn(f.rows)),
         Date |-> TextCell(f.rows[i].Date),
         Category |-> "",
         Month |-> NoPeriod]]

----------------------------------------------------------------------------
(* IngestValidator: lines 43-56 *)

\* a mutant of MissingColumns: both columns must be missing
MissingBothColumns(cols) == "Description" \notin cols /\ "Amount" \notin cols

\* line 43
MissingColumns(cols) == "Description" \notin cols \/ "Amount" \notin cols

\* df.dropna(subset=['Description', 'Amount']), line 47
DropNaDescriptionAmount(rows) ==
    LET keep(r) == ~IsNull(r.Description) /\ ~IsNull(r.Amount)
    IN  SelectSeq(rows, keep)

\* a mutant of to_numeric: text that is no number is read as 0
to_numeric_zero(c) ==
    IF c.k = "str" THEN (IF IsNumericText(c.s) THEN Num(NumericValue(c.s)) ELSE Num(0))
    ELSE c

\* a mutant of to_numeric: only text is converted
to_numeric_text_only(c) ==
    IF c.k = "str" /\ IsNumericText(c.s) THEN Num(NumericValue(c.s)) ELSE Null

\* pd.to_numeric(..., errors='coerce') on one cell, line 48
to_numeric(c) ==
    IF c.k = "str" THEN (IF IsNumericText(c.s) THEN Num(NumericValue(c.s)) ELSE Null)
    ELSE c

CoerceAmount(rows) ==
    [i \in 1..Len(rows) |-> [rows[i] EXCEPT !.Amount = to_numeric(rows[i].Amount)]]

\* df.dropna(subset=['Amount']), line 49
DropNaAmount(rows) ==
    LET keep(r) == ~IsNull(r.Amount) IN SelectSeq(rows, keep)

\* df['Category'] = df['Description'].apply(categorize), line 50
ApplyCategorize(rows) ==
    [i \in 1..Len(rows) |-> [rows[i] EXCEPT !.Category = categorize(rows[i].Description.s)]]

\* lines 47-50
Clean(rows) == ApplyCategorize(DropNaAmount(CoerceAmount(DropNaDescriptionAmount(rows))))

\* a mutant of SynthesizeDates: the days are counted forward
SynthesizeDatesForward(rows, today) ==
    [i \in 1..Len(rows) |-> [rows[i] EXCEPT !.Date = Dt(today + (i - 1))]]

\* [datetime.today() - timedelta(days=i) for i in range(len(df))], line 54
SynthesizeDates(rows, today) ==
    [i \in 1..Len(rows) |-> [rows[i] EXCEPT !.Date = Dt(today - (i - 1))]]

\* pd.to_datetime raises on text that is no date
ToDatetimeRaises(rows) ==
    \E i \in 1..Len(rows) : rows[i].Date.k = "str" /\ ~IsDateText(rows[i].Date.s)

\* pd.to_datetime on one cell, line 55
to_datetime(c) == IF c.k = "str" THEN Dt(DateValue(c.s)) ELSE c

ConvertDates(rows) ==
    [i \in 1..Len(rows) |-> [rows[i] EXCEPT !.Date = to_datetime(rows[i].Date)]]

\* .dt.to_period('M') on one cell, line 56; NaT stays NaT
to_period(c) == IF c.k = "dt" THEN Period(YearOf(c.n), MonthOf(c.n)) ELSE NoPeriod

DeriveMonth(rows) ==
    [i \in 1..Len(rows) |-> [rows[i] EXCEPT !.Month = to_period(rows[i].Date)]]

----------------------------------------------------------------------------
(* AggregationEngine: lines 63, 103, 121-132, 144 *)

\* Series.sum(): NaN is skipped
RECURSIVE SumAmount(_)
SumAmount(rows) ==
    IF rows = << >> THEN 0
    ELSE (IF Head(rows).Amount.k = "num" THEN Head(rows).Amount.n ELSE 0)
         + SumAmount(Tail(rows))

\* df[df['Category'] == c]
WhereCategory(rows, c) ==
    LET keep(r) == r.Category = c IN SelectSeq(rows, keep)

WhereMonth(rows, m) ==
    LET keep(r) == r.Month = m IN SelectSeq(rows, keep)

\* a mutant of GroupByCategory: the first amount of each group
FirstByCategory(rows) ==
    [c \in {rows[i].Category : i \in 1..Len(rows)} |->
        SumAmount(SubSeq(WhereCategory(rows, c), 1, 1))]

\* df.groupby('Category')['Amount'].sum(), line 63
GroupByCategory(rows) ==
    [c \in {rows[i].Category : i \in 1..Len(rows)} |-> SumAmount(WhereCategory(rows, c))]

\* df.groupby('Month')['Amount'].sum(), line 103: groupby leaves out the rows
\* whose key is NaT
GroupByMonth(rows) ==
    [m \in {rows[i].Month : i \in 1..Len(rows)} \ {NoPeriod} |->
        SumAmount(WhereMonth(rows, m))]

\* the sum of a mapping's values
RECURSIVE SumValues(_)
SumValues(f) ==
    IF DOMAIN f = {} THEN 0
    ELSE LET k == CHOOSE x \in DOMAIN f : TRUE
         IN  f[k] + SumValues([x \in DOMAIN f \ {k} |-> f[x]])

BudgetCategories == <<"groceries", "rent", "utilities", "entertainment">>

\* the number inputs of lines 115-118: their defaults, or other values >= 0
BudgetInputs == {<<200, 1000, 150, 100>>, <<0, 40, 150, 100>>}

\* a mutant of BudgetData: one entry per category of the data
BudgetDataObserved(rows, budgets) ==
    LET cats == {rows[i].Category : i \in 1..Len(rows)}
        keep(c) == c \in cats
        seen == SelectSeq(BudgetCategories \o <<"other">>, keep)
    IN  [i \in 1..Len(seen) |->
            [Category |-> seen[i], Budget |-> 0,
             Actual |-> SumAmount(WhereCategory(rows, seen[i]))]]

\* budget_data, lines 121-130
BudgetData(rows, budgets) ==
    [i \in 1..4 |->
        [Category |-> BudgetCategories[i],
         Budget |-> budgets[i],
         Actual |-> SumAmount(WhereCategory(rows, BudgetCategories[i]))]]

----------------------------------------------------------------------------
(* TipAdvisor: saving_tips, lines 68-76 *)

TipCategories == {"groceries", "rent", "utilities", "entertainment", "other"}

tips == [c \in TipCategories |->
    CASE c = "groceries" ->
           "Consider buying in bulk, using coupons, and shopping at discount stores."
      [] c = "rent" ->
           "Try to negotiate a lower rent or consider moving to a more affordable place."
      [] c = "utilities" ->
           "Turn off unused electronics, and use energy-efficient appliances."
      [] c = "entertainment" ->
           "Cut down on subscriptions and find free or low-cost entertainment options."
      [] c = "other" ->
           "Analyze discretionary expenses and reduce non-essential spending."]

\* a mutant of saving_tips: the default is the tip of "other"
saving_tips_other(category) ==
    IF category \in DOMAIN tips THEN tips[category] ELSE tips["other"]

\* tips.get(category, "No tips available."), line 76
saving_tips(category) ==
    IF category \in DOMAIN tips THEN tips[category] ELSE "No tips available."

----------------------------------------------------------------------------
(* The script run *)

NoUpload == [cols |-> {}, rows |-> << >>]

Blank ==
    /\ categories = << >>
    /\ uploaded_file = NoUpload
    /\ columns = {}
    /\ df = << >>
    /\ error_shown = FALSE
    /\ summary = << >>
    /\ tips_shown = << >>
    /\ monthly_spending = << >>
    /\ budget_df = << >>
    /\ total_spent = 0
    /\ download = << >>
    /\ outputs = {}

Init ==
    /\ cfg \in Configs
    /\ pc = "start"
    /\ Blank
    /\ cat_description = << >>
    /\ cat_result = ""

\* categories = load_categories(), line 22; an exception it lets through ends
\* the run
LoadCategories ==
    /\ pc = "start"
    /\ IF load_categories(cfg).raised
       THEN pc' = "load_failed" /\ UNCHANGED categories
       ELSE pc' = "ready" /\ categories' = load_categories(cfg).value
    /\ UNCHANGED <<cfg, uploaded_file, columns, df, error_shown, summary, tips_shown,
                   monthly_spending, budget_df, total_spent, download, outputs,
                   cat_description, cat_result>>

\* lines 36-40: a file is uploaded and read
Upload ==
    /\ pc = "ready"
    /\ \E f \in Files :
        /\ uploaded_file' = f
        /\ columns' = f.cols
        /\ df' = ReadCsv(f)
    /\ pc' = "uploaded"
    /\ UNCHANGED <<cfg, categories, error_shown, summary, tips_shown,
                   monthly_spending, budget_df, total_spent, download, outputs,
                   cat_description, cat_result>>

\* lines 43-56: validate the columns, clean, categorize and date the rows.
\* to_datetime raising ends the run after line 50 has taken effect.
Process ==
    /\ pc = "uploaded"
    /\ IF MissingColumns(columns)
       THEN /\ error_shown' = TRUE
            /\ outputs' = outputs \cup {"error"}
            /\ pc' = "rejected"
            /\ UNCHANGED <<columns, df>>
       ELSE IF "Date" \notin columns
       THEN /\ \E today \in Todays :
                df' = DeriveMonth(ConvertDates(SynthesizeDates(Clean(df), today)))
            /\ columns' = columns \cup {"Category", "Date", "Month"}
            /\ pc' = "processed"
            /\ UNCHANGED <<error_shown, outputs>>
       ELSE IF ToDatetimeRaises(Clean(df))
       THEN /\ df' = Clean(df)
            /\ columns' = columns \cup {"Category"}
            /\ pc' = "crashed"
            /\ UNCHANGED <<error_shown, outputs>>
       ELSE /\ df' = DeriveMonth(ConvertDates(Clean(df)))
            /\ columns' = columns \cup {"Category", "Month"}
            /\ pc' = "processed"
            /\ UNCHANGED <<error_shown, outputs>>
    /\ UNCHANGED <<cfg, categories, uploaded_file, summary, tips_shown,
                   monthly_spending, budget_df, total_spent, download,
                   cat_description, cat_result>>

\* lines 58-152: the tables, the tips, the budget comparison, the total and
\* the download
Report ==
    /\ pc = "processed"
    /\ summary' = GroupByCategory(df)
    /\ tips_shown' = [c \in DOMAIN GroupByCategory(df) |-> saving_tips(c)]
    /\ monthly_spending' = GroupByMonth(df)
    /\ \E budgets \in BudgetInputs : budget_df' = BudgetData(df, budgets)
    /\ total_spent' = SumValues(GroupByCategory(df))
    /\ download' = df
    /\ outputs' = outputs \cup {"table", "summary", "tips", "monthly", "budget",
                                "total", "download"}
    /\ pc' = "done"
    /\ UNCHANGED <<cfg, categories, uploaded_file, columns, df, error_shown,
                   cat_description, cat_result>>

\* the script runs again from the top; nothing is kept from the run before
Rerun ==
    /\ pc \in {"load_failed", "rejected", "crashed", "done"}
    /\ pc' = "start"
    /\ categories' = << >>
    /\ uploaded_file' = NoUpload
    /\ columns' = {}
    /\ df' = << >>
    /\ error_shown' = FALSE
    /\ summary' = << >>
    /\ tips_shown' = << >>
    /\ monthly_spending' = << >>
    /\ budget_df' = << >>
    /\ total_spent' = 0
    /\ download' = << >>
    /\ outputs' = {}
    /\ UNCHANGED <<cfg, cat_description, cat_result>>

Next == LoadCategories \/ Upload \/ Process \/ Report \/ Rerun

Spec == Init /\ [][Next]_vars

----------------------------------------------------------------------------
(* categorize on its own: every description up to MaxDescLen over an       *)
(* alphabet, under each rule set                                            *)

CatAlphabet == {"g", "a", "s", "G", "A"}

CatDescriptions == UNION {[1..n -> CatAlphabet] : n \in 0..MaxDescLen}

CatRuleSets == {DefaultCategories, CustomCategories, EmptyKeywordCategories}

InitCat ==
    /\ cfg = NoFile
    /\ pc = "cat_ready"
    /\ categories \in CatRuleSets
    /\ uploaded_file = NoUpload
    /\ columns = {}
    /\ df = << >>
    /\ error_shown = FALSE
    /\ summary = << >>
    /\ tips_shown = << >>
    /\ monthly_spending = << >>
    /\ budget_df = << >>
    /\ total_spent = 0
    /\ download = << >>
    /\ outputs = {}
    /\ cat_description \in CatDescriptions
    /\ cat_result = ""

CatCall ==
    /\ pc = "cat_ready"
    /\ cat_result' = categorize(cat_description)
    /\ pc' = "cat_done"
    /\ UNCHANGED <<cfg, categories, uploaded_file, columns, df, error_shown, summary,
                   tips_shown, monthly_spending, budget_df, total_spent, download,
                   outputs, cat_description>>

NextCat == CatCall

SpecCat == InitCat /\ [][NextCat]_vars

----------------------------------------------------------------------------
(* Properties *)

\* kw occurs in d at some position
Occurs(kw, d) ==
    \E i \in 0..(Len(d) - Len(kw)) : SubSeq(d, i + 1, i + Len(kw)) = kw

\* rule i of the rule set has a keyword occurring in d
RuleMatches(i, d) ==
    \E k \in 1..Len(categories[i].keywords) : Occurs(categories[i].keywords[k], d)

\* the rows of the uploaded file that cleaning is to keep: a description is
\* there and the amount is a number
Keeps(raw) == raw.Description # << >> /\ IsNumericText(raw.Amount)

Cleaned == pc \in {"processed", "crashed", "done"}

Dated == pc \in {"processed", "done"}

\* the sum of the amounts of the rows that satisfy a condition, row by row
RECURSIVE AmountOfFirst(_, _, _)
AmountOfFirst(rows, n, cats) ==
    IF n = 0 THEN 0
    ELSE AmountOfFirst(rows, n - 1, cats)
         + (IF rows[n].Category \in cats THEN rows[n].Amount.n ELSE 0)

AllCategories == {df[i].Category : i \in 1..Len(df)}

\* C1: categorize returns the first category, in rule-set order, one of whose
\* keywords occurs in the lower-cased description, and "other" when none does
C1_CategorizeFirstMatch ==
    pc = "cat_done" =>
        LET d == Lower(cat_description)
            n == Len(categories)
        IN  /\ (\A i \in 1..n : ~RuleMatches(i, d)) => cat_result = "other"
            /\ \A i \in 1..n :
                 (RuleMatches(i, d) /\ \A j \in 1..(i - 1) : ~RuleMatches(j, d))
                    => cat_result = categories[i].name

\* a description with an upper-case letter that matches two categories got
\* the earlier one
C1_Witness ==
    /\ pc = "cat_done"
    /\ Lower(cat_description) # cat_description
    /\ \E i, j \in 1..Len(categories) :
         /\ i < j
         /\ RuleMatches(i, Lower(cat_description))
         /\ RuleMatches(j, Lower(cat_description))
         /\ \A h \in 1..(i - 1) : ~RuleMatches(h, Lower(cat_description))
         /\ categories[i].name # categories[j].name
         /\ cat_result = categories[i].name

\* C2: a file without the Description or the Amount column ends in the
\* missing-column error, with the rows as read and nothing else produced
C2_MissingColumnRejected ==
    (/\ pc \in {"rejected", "processed", "crashed", "done"}
     /\ ("Description" \notin uploaded_file.cols \/ "Amount" \notin uploaded_file.cols))
    => /\ pc = "rejected"
       /\ error_shown
       /\ outputs = {"error"}
       /\ df = ReadCsv(uploaded_file)
       /\ columns = uploaded_file.cols
       /\ \A i \in 1..Len(df) : df[i].Category = "" /\ df[i].Month = NoPeriod
       /\ summary = << >> /\ tips_shown = << >> /\ monthly_spending = << >>
       /\ budget_df = << >> /\ total_spent = 0 /\ download = << >>

\* a file with rows and a Description column, but no Amount column, was rejected
C2_Witness ==
    /\ pc = "rejected"
    /\ uploaded_file.cols = {"Description", "Date"}
    /\ Len(uploaded_file.rows) > 0
    /\ uploaded_file.rows[1].Description # << >>

\* C3: after cleaning the rows kept are, in order, exactly the rows of the
\* file with a description and a numeric amount, each with its number as
\* amount; the others are dropped without an error being shown
C3_CleanedRows ==
    (Cleaned /\ {"Description", "Amount"} \subseteq uploaded_file.cols) =>
        LET raw == uploaded_file.rows
        IN  /\ \A i \in 1..Len(df) :
                 /\ df[i].Description.k = "str"
                 /\ df[i].Amount.k = "num"
                 /\ df[i].idx + 1 \in 1..Len(raw)
                 /\ Keeps(raw[df[i].idx + 1])
                 /\ df[i].Description.s = raw[df[i].idx + 1].Description
                 /\ df[i].Amount.n = NumericValue(raw[df[i].idx + 1].Amount)
            /\ \A i \in 1..Len(raw) :
                 Keeps(raw[i]) => \E h \in 1..Len(df) : df[h].idx = i - 1
            /\ \A i, j \in 1..Len(df) : i < j => df[i].idx < df[j].idx
            /\ ~error_shown
            /\ "error" \notin outputs
            /\ pc = "crashed" =>
                 \E i \in 1..Len(raw) :
                    raw[i].Date # << >> /\ ~IsDateText(raw[i].Date)

\* a row with a non-numeric amount was dropped and another row was kept
C3_Witness ==
    /\ pc = "processed"
    /\ Len(df) = 1
    /\ \E i \in 1..Len(uploaded_file.rows) :
         /\ uploaded_file.rows[i].Description # << >>
         /\ uploaded_file.rows[i].Amount = <<"a","b">>

\* C4: the category summary has one entry per category of the cleaned rows,
\* each the sum of the amounts of the rows of that category, and its values
\* add up to total_spent, the sum of all cleaned amounts
C4_CategorySummaryPartitionsTotal ==
    pc = "done" =>
        /\ DOMAIN summary = AllCategories
        /\ \A c \in DOMAIN summary : summary[c] = AmountOfFirst(df, Len(df), {c})
        /\ SumValues(summary) = total_spent
        /\ total_spent = AmountOfFirst(df, Len(df), AllCategories)

\* a summary of two categories
C4_Witness ==
    /\ pc = "done"
    /\ Cardinality(DOMAIN summary) = 2
    /\ total_spent > 0

\* C5: the values of the monthly summary add up to total_spent, every
\* cleaned row having a month
C5_MonthlySummaryPartitionsTotal ==
    /\ Dated => \A i \in 1..Len(df) : df[i].Month # NoPeriod
    /\ pc = "done" => SumValues(monthly_spending) = total_spent

\* C6: the budget comparison has the four fixed categories in order, each
\* with the sum of the amounts of the cleaned rows of that category
C6_BudgetComparisonFixedFour ==
    pc = "done" =>
        /\ Len(budget_df) = 4
        /\ [i \in 1..4 |-> budget_df[i].Category]
             = <<"groceries", "rent", "utilities", "entertainment">>
        /\ \A i \in 1..4 :
             /\ budget_df[i].Actual = AmountOfFirst(df, Len(df), {budget_df[i].Category})
             /\ budget_df[i].Category \notin AllCategories => budget_df[i].Actual = 0
             /\ budget_df[i].Budget >= 0

\* "other" is in the summary, and of the four entries one has amounts and
\* one has none
C6_Witness ==
    /\ pc = "done"
    /\ "other" \in DOMAIN summary
    /\ \E i, j \in 1..4 : budget_df[i].Actual > 0 /\ budget_df[j].Actual = 0

\* names a category may have: the five of the table and others
TipProbes == TipCategories \cup {"travel", "misc", "all", "Other", ""}

ExpectedTip(c) ==
    CASE c = "groceries" ->
           "Consider buying in bulk, using coupons, and shopping at discount stores."
      [] c = "rent" ->
           "Try to negotiate a lower rent or consider moving to a more affordable place."
      [] c = "utilities" ->
           "Turn off unused electronics, and use energy-efficient appliances."
      [] c = "entertainment" ->
           "Cut down on subscriptions and find free or low-cost entertainment options."
      [] c = "other" ->
           "Analyze discretionary expenses and reduce non-essential spending."
      [] OTHER -> "No tips available."

\* C7, as amended: the tip of each of the five categories is its own text,
\* and the tip of any other category is "No tips available.", which is not
\* the tip of "other"
C7_TipDefaultText ==
    /\ \A c \in TipProbes : saving_tips(c) = ExpectedTip(c)
    /\ \A c \in TipProbes \ TipCategories : saving_tips(c) # saving_tips("other")
    /\ pc = "done" =>
         /\ DOMAIN tips_shown = DOMAIN summary
         /\ \A c \in DOMAIN tips_shown : tips_shown[c] = ExpectedTip(c)

\* a category outside the table was given a tip
C7_Witness ==
    /\ pc = "done"
    /\ "travel" \in DOMAIN tips_shown
    /\ tips_shown["travel"] = "No tips available."

\* C7, as claimed: a category outside the table gets the tip of "other"
C7_TipFallsBackToOther ==
    pc = "done" =>
        \A c \in DOMAIN tips_shown :
            /\ c \in TipCategories => tips_shown[c] = ExpectedTip(c)
            /\ c \notin TipCategories => tips_shown[c] = ExpectedTip("other")

\* C8, as amended: with no categories.json the run goes on with the built-in
\* rule set, five categories in the declared order; with a categories.json
\* that cannot be read, load_categories raises and the run ends
C8_AbsentConfigFallsBack ==
    /\ (cfg.kind = "absent" /\ pc # "start") =>
         /\ pc # "load_failed"
         /\ Len(categories) = 5
         /\ [i \in 1..5 |-> categories[i].name]
              = <<"groceries", "rent", "utilities", "entertainment", "other">>
         /\ categories[5].keywords = << >>
         /\ categories[3].keywords = <<<<"e","l","e","c","t","r","i","c">>, <<"w","a","t","e","r">>, <<"g","a","s">>, <<"i","n","t","e","r","n","e","t">>>>
         /\ categories = DefaultCategories
    /\ (cfg.kind = "unreadable" /\ pc # "start") =>
         pc = "load_failed" /\ categories = << >>

\* without a categories.json a run went through with the built-in rule set
C8_Witness ==
    /\ cfg.kind = "absent"
    /\ pc = "done"
    /\ categories = DefaultCategories
    /\ DOMAIN summary # {}

\* C8, as claimed: absent or unreadable, load_categories does not fail and
\* returns the built-in rule set
C8_AbsentOrUnreadableFallsBack ==
    (cfg.kind \in {"absent", "unreadable"} /\ pc # "start") =>
        pc # "load_failed" /\ categories = DefaultCategories

\* C9: without a Date column the cleaned row at position i (from 0) is dated
\* today minus i days, the rows staying in input order; with a Date column
\* each row has the date of its own cell
C9_SynthesizedDatesCountBackward ==
    Dated =>
        /\ "Date" \notin uploaded_file.cols =>
             /\ \E today \in Todays :
                  \A i \in 1..Len(df) : df[i].Date = Dt(today - (i - 1))
             /\ \A i, j \in 1..Len(df) : i < j => df[i].idx < df[j].idx
        /\ "Date" \in uploaded_file.cols =>
             \A i \in 1..Len(df) :
                LET cell == uploaded_file.rows[df[i].idx + 1].Date
                IN  IF cell = << >> THEN df[i].Date = Null
                    ELSE df[i].Date = Dt(DateValue(cell))

\* two rows without a Date column: the second is dated the day before the first
C9_Witness ==
    /\ pc = "processed"
    /\ "Date" \notin uploaded_file.cols
    /\ Len(df) >= 2
    /\ df[1].Date.n \in Todays
    /\ df[2].Date.n = df[1].Date.n - 1

\* the cleaning steps on a table that has a Date column
CleanAgain(rows) == DeriveMonth(ConvertDates(Clean(rows)))

\* C10: the cleaning steps applied to a cleaned and dated table pass the
\* column check, raise nothing, drop no row and change no cell
C10_CleaningIdempotent ==
    Dated =>
        /\ {"Description", "Amount", "Date"} \subseteq columns
        /\ ~ToDatetimeRaises(Clean(df))
        /\ Len(CleanAgain(df)) = Len(df)
        /\ CleanAgain(df) = df

\* a cleaned table of two rows, one of them without a date
C10_Witness ==
    /\ pc = "processed"
    /\ Len(df) >= 2
    /\ \E i \in 1..Len(df) : df[i].Date = Null
    /\ \E i \in 1..Len(df) : df[i].Date # Null

====
